---- MODULE Spec2Model ----
(***************************************************************************)
(* Model of scripts/build_dashboard.py: the static dashboard generator.    *)
(*                                                                         *)
(* Text is modelled as a sequence of tokens (a word, a blank " ", a markup *)
(* tag such as "<b>", an entity such as "&amp;"); the empty string is <<>>.*)
(* A run of build_dashboard is split into its steps (read the fragments,   *)
(* sort, read the repository template, one loop iteration per repository,  *)
(* read the dashboard template, write the dashboard) so that the order of  *)
(* reads and writes and the place where a run aborts are visible.          *)
(***************************************************************************)
EXTENDS Integers, Sequences, FiniteSets, TLC

(* ---------------------------- bounds ----------------------------------- *)
MaxFiles == 3        \* fragments in the ordering family of inputs
MaxArticles == 3     \* articles per fragment in the entries family
MaxRate == 23        \* complete (resp. error) entries in the success-rate family
MaxRuns == 2         \* consecutive runs of the script on the same input

(* ---------------------------- text helpers ----------------------------- *)
Blank == " "
Tags == {"<b>", "</b>", "<em>", "</em>"}

RECURSIVE LStrip(_)
LStrip(t) == IF t # <<>> /\ Head(t) = Blank THEN LStrip(Tail(t)) ELSE t

RECURSIVE RStrip(_)
RStrip(t) ==
  IF t # <<>> /\ t[Len(t)] = Blank THEN RStrip(SubSeq(t, 1, Len(t) - 1)) ELSE t

\* str.strip()
Strip(t) == RStrip(LStrip(t))

\* html.unescape, on the entities of the model's alphabet
unescape(t) == [k \in 1..Len(t) |-> IF t[k] = "&amp;" THEN "&" ELSE t[k]]

\* re.sub(r"<[^>]+>", "", value).strip()
_strip_tags(value) == Strip(SelectSeq(value, LAMBDA tok : tok \notin Tags))

\* str.capitalize() on the status words of the model
CapitalizeWord(w) ==
  CASE w = "complete" -> "Complete"
    [] w = "error" -> "Error"
    [] w = "running" -> "Running"
    [] w = "unknown" -> "Unknown"
    [] OTHER -> w

capitalize(t) == IF t = <<>> THEN <<>> ELSE <<CapitalizeWord(t[1])>> \o Tail(t)

\* "\n".join(pad + line if line.strip() else line for line in text.splitlines())
_indent_block(text, spaces) == [pad |-> spaces, block |-> text]

(* ---------------------------- timestamps ------------------------------- *)
\* The date-time part of an ISO-8601 text and the wall-clock minute (counted
\* from 0001-01-01T00:00) that datetime.fromisoformat reads from it.
IsoWall(body) ==
  CASE body = "0001-01-01T00:00:00" -> 0
    [] body = "2024-03-01T10:00:00" -> 1064081400
    [] body = "2024-03-01T12:00:00" -> 1064081520
    [] body = "2024-03-02T09:00:00" -> 1064082780
    [] OTHER -> -1

IsoBodies == {"0001-01-01T00:00:00", "2024-03-01T10:00:00",
              "2024-03-01T12:00:00", "2024-03-02T09:00:00"}

\* UTC offsets fromisoformat accepts, in minutes
IsoOffset(suffix) ==
  CASE suffix = "+00:00" -> 0
    [] suffix = "+02:00" -> 120
    [] OTHER -> -1

IsoOffsets == {"+00:00", "+02:00"}

\* datetime values: naive (aware = FALSE) or aware with a UTC offset
Naive(wall) == [wall |-> wall, aware |-> FALSE, off |-> 0]
Aware(wall, off) == [wall |-> wall, aware |-> TRUE, off |-> off]

\* datetime.min
datetime_min == Naive(0)

\* datetime.fromisoformat: <<d>> on success, <<>> for ValueError.  A trailing
\* "Z" is rejected here (Python < 3.11); _parse_iso then retries with
\* "+00:00", which gives the value Python >= 3.11 returns directly.
fromisoformat(ts) ==
  IF Len(ts) = 1 /\ ts[1] \in IsoBodies THEN <<Naive(IsoWall(ts[1]))>>
  ELSE IF Len(ts) = 2 /\ ts[1] \in IsoBodies /\ ts[2] \in IsoOffsets
       THEN <<Aware(IsoWall(ts[1]), IsoOffset(ts[2]))>>
  ELSE <<>>

\* <<d>> for a parsed datetime, <<>> for None
_parse_iso(ts) ==
  IF ts = <<>> THEN <<>>
  ELSE IF fromisoformat(ts) # <<>> THEN fromisoformat(ts)
  ELSE IF ts[Len(ts)] = "Z"
       THEN fromisoformat(SubSeq(ts, 1, Len(ts) - 1) \o <<"+00:00">>)
  ELSE <<>>

\* the "%Y-%m-%d %H:%M" rendering of a wall-clock minute (glibc does not pad
\* the year)
FormatYmdHm(wall) ==
  CASE wall = 0 -> "1-01-01 00:00"
    [] wall = 1064081400 -> "2024-03-01 10:00"
    [] wall = 1064081520 -> "2024-03-01 12:00"
    [] wall = 1064082780 -> "2024-03-02 09:00"
    [] OTHER -> "?"

\* the "%z" rendering of an offset
FormatOffset(off) ==
  CASE off = 0 -> "+0000"
    [] off = 120 -> "+0200"
    [] OTHER -> "?"

\* parsed_time.strftime("%Y-%m-%d %H:%M %z").strip()
strftime(d) ==
  IF d.aware THEN <<FormatYmdHm(d.wall), Blank, FormatOffset(d.off)>>
  ELSE Strip(<<FormatYmdHm(d.wall), Blank>>)

\* datetime ordering: aware values compare by UTC instant, naive ones by
\* wall clock; comparing a naive with an aware value raises TypeError.
Comparable(a, b) == a.aware = b.aware
Instant(d) == d.wall - d.off
DtLess(a, b) == Instant(a) < Instant(b)

(* ------------------- IEEE-754 double arithmetic ------------------------ *)
\* completed / total and (...) * 100 are float operations.  A double x with
\* 0 < x <= 128 is modelled exactly by its 53-bit significand, held in three
\* limbs (20, 20 and 13 bits), and a shift z:
\*     x = (hi * 2^33 + mid * 2^13 + lo) * 2^-(53 + z).
\* After a multiplication hi may hold more than 20 bits.
Carry(hi, mid, lo) ==
  LET mid1 == mid + lo \div 2^13
  IN [hi |-> hi + mid1 \div 2^20, mid |-> mid1 % 2^20, lo |-> lo % 2^13]

\* zero bits before the first one bit of the binary expansion of r / t
RECURSIVE LeadingZeros(_, _)
LeadingZeros(r, t) == IF 2 * r >= t THEN 0 ELSE 1 + LeadingZeros(2 * r, t)

\* the double nearest to c / t (round to nearest, ties to even), 0 < c < t
FloatDiv(c, t) ==
  LET z == LeadingZeros(c, t)
      n == c * 2^z
      d1 == (n * 2^20) \div t
      r1 == (n * 2^20) % t
      d2 == (r1 * 2^20) \div t
      r2 == (r1 * 2^20) % t
      d3 == (r2 * 2^13) \div t
      r3 == (r2 * 2^13) % t
      up == 2 * r3 > t \/ (2 * r3 = t /\ d3 % 2 = 1)
      m == Carry(d1, d2, d3 + (IF up THEN 1 ELSE 0))
  IN [hi |-> m.hi, mid |-> m.mid, lo |-> m.lo, z |-> z]

\* the double nearest to x * 100: the exact product has 6 or 7 bits too many
FloatMul100(x) ==
  LET p == Carry(x.hi * 100, x.mid * 100, x.lo * 100)
      s == IF p.hi >= 2^26 THEN 7 ELSE 6
      dropped == p.lo % 2^s
      half == 2^(s - 1)
      up == dropped > half \/ (dropped = half /\ (p.lo \div 2^s) % 2 = 1)
      m == Carry(p.hi, p.mid, p.lo - dropped + (IF up THEN 2^s ELSE 0))
  IN [hi |-> m.hi, mid |-> m.mid, lo |-> m.lo, z |-> x.z]

\* round(x): the nearest integer, a half going to the even neighbour
FloatRound(x) ==
  LET n == x.hi \div 2^(x.z + 20)
      frac == x.hi % 2^(x.z + 20)
      half == 2^(x.z + 19)
      sticky == x.mid # 0 \/ x.lo # 0
      up == frac > half \/ (frac = half /\ (sticky \/ n % 2 = 1))
  IN IF up THEN n + 1 ELSE n

\* round((completed / total) * 100), for 0 <= completed <= total, total > 0
RoundedPercent(completed, total) ==
  IF completed = 0 THEN 0
  ELSE IF completed = total THEN 100
  ELSE FloatRound(FloatMul100(FloatDiv(completed, total)))

(* ---------------------------- extraction ------------------------------- *)
\* value or fallback  (Python's  value or "literal"  on strings)
Or(value, fallback) == IF value = <<>> THEN fallback ELSE value

\* the group ([^<]+) of the Stage/Notes patterns: the text up to the next tag
RECURSIVE UpToTag(_)
UpToTag(t) ==
  IF t = <<>> \/ Head(t) \in Tags THEN <<>> ELSE <<Head(t)>> \o UpToTag(Tail(t))

\* An <article> element of a fragment: the values of its data-status and
\* data-time attributes (<<>>: attribute absent), the inside of its <h4>
\* (<<>>: no heading) and the text after its Stage: and Notes: labels
\* (<<>>: no label).
ArticleElement(status, time, h4, stage, notes) ==
  [status |-> status, time |-> time, h4 |-> h4, stage |-> stage, notes |-> notes]

\* the pattern of _extract_articles needs both attributes, each non-empty
ArticleMatches(a) == a.status # <<>> /\ a.time # <<>>

\* the body of the loop of _extract_articles: one match to one dict
ArticleDict(a) ==
  LET parsed_time == _parse_iso(a.time)
  IN [status |-> Or(Strip(a.status), <<"unknown">>),
      time_raw |-> Strip(a.time),
      time_display |-> IF parsed_time # <<>> THEN strftime(parsed_time[1])
                       ELSE a.time,
      summary |-> _strip_tags(unescape(a.h4)),
      stage |-> _strip_tags(unescape(UpToTag(LStrip(a.stage)))),
      notes |-> _strip_tags(unescape(UpToTag(LStrip(a.notes)))),
      sort_key |-> IF parsed_time # <<>> THEN parsed_time[1] ELSE datetime_min]

\* mutant: the entries come out newest last
_extract_articles_reversed(section_html) ==
  LET found == SelectSeq(section_html.articles, ArticleMatches)
  IN [k \in 1..Len(found) |-> ArticleDict(found[Len(found) + 1 - k])]

_extract_articles(section_html) ==
  LET found == SelectSeq(section_html.articles, ArticleMatches)
  IN [k \in 1..Len(found) |-> ArticleDict(found[k])]

\* A fragment: text before its <section> element, whether it has a <section>
\* element at all, that element's data-repo and data-agent values (<<>>:
\* attribute absent) and its <article> elements.
Html(prologue, section, repo, agent, articles) ==
  [prologue |-> prologue, section |-> section, repo |-> repo, agent |-> agent,
   articles |-> articles]

\* the first <section>...</section>, or the whole stripped document
_extract_section(html) ==
  IF html.section THEN [html EXCEPT !.prologue = <<>>]
  ELSE [html EXCEPT !.prologue = Strip(@)]

\* path.stem.replace("updates-", "")
StemToRepo(stem) == SelectSeq(stem, LAMBDA tok : tok # "updates-")

\* the pattern of _parse_update_file needs data-repo then data-agent
SectionMatches(section_html) ==
  section_html.section /\ section_html.repo # <<>> /\ section_html.agent # <<>>

_parse_update_file(path) ==
  LET section_html == _extract_section(path.html)
      articles == _extract_articles(section_html)
      has_latest == articles # <<>>
  IN [repo |-> IF SectionMatches(section_html) THEN section_html.repo
               ELSE StemToRepo(path.stem),
      agent |-> IF SectionMatches(section_html) THEN section_html.agent
                ELSE <<"unknown">>,
      status |-> IF has_latest THEN Or(articles[1].status, <<"unknown">>)
                 ELSE <<"unknown">>,
      time_raw |-> IF has_latest THEN articles[1].time_raw ELSE <<>>,
      time_display |-> IF has_latest THEN articles[1].time_display ELSE <<>>,
      summary |-> IF has_latest THEN articles[1].summary ELSE <<>>,
      section_html |-> section_html,
      sort_key |-> IF has_latest THEN articles[1].sort_key ELSE datetime_min,
      articles |-> articles]

(* ---------------------------- sorting ---------------------------------- *)
\* list.sort compares keys with <; every element is compared with an earlier
\* one, so a list holding a naive and an aware key always raises TypeError.
SortRaises(items) ==
  \E a, b \in 1..Len(items) : ~Comparable(items[a].sort_key, items[b].sort_key)

\* mutant: an item goes before the elements with an equal key (unstable)
RECURSIVE InsertBeforeEqual(_, _)
InsertBeforeEqual(item, sorted) ==
  IF sorted = <<>> THEN <<item>>
  ELSE IF ~DtLess(item.sort_key, Head(sorted).sort_key) THEN <<item>> \o sorted
  ELSE <<Head(sorted)>> \o InsertBeforeEqual(item, Tail(sorted))

\* insert item after every element whose key is not smaller (stable)
RECURSIVE InsertDescending(_, _)
InsertDescending(item, sorted) ==
  IF sorted = <<>> THEN <<item>>
  ELSE IF DtLess(Head(sorted).sort_key, item.sort_key) THEN <<item>> \o sorted
  ELSE <<Head(sorted)>> \o InsertDescending(item, Tail(sorted))

\* updates.sort(key=lambda item: item["sort_key"], reverse=True)
RECURSIVE SortDescending(_)
SortDescending(items) ==
  IF items = <<>> THEN <<>>
  ELSE InsertDescending(items[Len(items)],
                        SortDescending(SubSeq(items, 1, Len(items) - 1)))

(* ---------------------------- rendering -------------------------------- *)
_repo_page_filename(repo) ==
  IF repo # <<>> /\ repo[1] = "repo-" THEN repo \o <<".html">>
  ELSE <<"repo-">> \o repo \o <<".html">>

\* the alphanumeric run of an identifier token ("repo-" is "repo" and "-")
AlnumPart(tok) ==
  CASE tok = "repo-" -> "repo"
    [] tok = "updates-" -> "updates"
    [] OTHER -> tok

\* part[0].upper() and part[:2].upper() on the words of the model
UpperInitial(word) ==
  CASE word = "repo" -> "R"
    [] word = "updates" -> "U"
    [] word = "foo" -> "F"
    [] word = "alpha" -> "A"
    [] word = "beta" -> "B"
    [] word = "delta" -> "D"
    [] word = "eps" -> "E"
    [] word = "gamma" -> "G"
    [] OTHER -> "?"

UpperTwo(word) ==
  CASE word = "repo" -> "RE"
    [] word = "updates" -> "UP"
    [] word = "foo" -> "FO"
    [] word = "alpha" -> "AL"
    [] word = "beta" -> "BE"
    [] word = "delta" -> "DE"
    [] word = "eps" -> "EP"
    [] word = "gamma" -> "GA"
    [] OTHER -> "?"

badge_label(repo) ==
  LET parts == [k \in 1..Len(repo) |-> AlnumPart(repo[k])]
  IN IF parts = <<>> THEN <<"RP">>
     ELSE IF Len(parts) = 1 THEN <<UpperTwo(parts[1])>>
     ELSE <<UpperInitial(parts[1]), UpperInitial(parts[2])>>

\* one <a class="server-dot..."> entry of a rail
RailEntry(active, href, title, label) ==
  [active |-> active, href |-> href, title |-> title, label |-> label]

HomeEntry(active) == RailEntry(active, <<"dashboard.html">>, <<"Dashboard">>, <<"CD">>)

\* mutant: the placeholder row is labelled like an ordinary error row
MissingRowLabelledError ==
  [href |-> <<>>, repo |-> <<"-">>, status_class |-> <<"error">>,
   status_label |-> <<"Error">>, time |-> <<"-">>, agent |-> <<"-">>,
   summary |-> <<"No updates found">>]

\* the placeholder row of the status table
MissingRow ==
  [href |-> <<>>, repo |-> <<"-">>, status_class |-> <<"error">>,
   status_label |-> <<"Missing">>, time |-> <<"-">>, agent |-> <<"-">>,
   summary |-> <<"No updates found">>]

StatusRow(item) ==
  [href |-> _repo_page_filename(item.repo), repo |-> item.repo,
   status_class |-> item.status, status_label |-> capitalize(item.status),
   time |-> item.time_display, agent |-> item.agent, summary |-> item.summary]

HistoryBlock(item) ==
  [repo |-> item.repo, agent |-> item.agent,
   section |-> _indent_block(item.section_html, 12)]

ErrorArticles(articles) == SelectSeq(articles, LAMBDA a : a.status = <<"error">>)
CompleteArticles(articles) == SelectSeq(articles, LAMBDA a : a.status = <<"complete">>)

ActivityItems(articles) ==
  LET first == SubSeq(articles, 1, IF Len(articles) < 3 THEN Len(articles) ELSE 3)
  IN IF first = <<>>
     THEN << [title |-> <<"No activity recorded yet">>,
              meta |-> <<"Add updates to populate this feed.">>,
              time |-> <<"-">>] >>
     ELSE [k \in 1..Len(first) |->
             [title |-> Or(first[k].summary, <<"Update">>),
              meta |-> <<"Stage: ">> \o Or(first[k].stage, <<"update">>),
              time |-> Or(first[k].time_display, <<"-">>)]]

NoIncidentsItem ==
  [title |-> <<"No incidents reported">>,
   meta |-> <<"All clear in recent updates.">>, time |-> <<"-">>]

IncidentItems(articles) ==
  LET incidents == ErrorArticles(articles)
  IN IF incidents = <<>> THEN <<NoIncidentsItem>>
     ELSE [k \in 1..Len(incidents) |->
             [title |-> Or(incidents[k].summary, <<"Incident">>),
              meta |-> Or(incidents[k].notes, <<"Details in update log.">>),
              time |-> Or(incidents[k].time_display, <<"-">>)]]

\* f"{round((completed / total) * 100)}%" if total else "N/A"
SuccessRate(articles) ==
  LET completed == Len(CompleteArticles(articles))
      errors == Len(ErrorArticles(articles))
      total == completed + errors
  IN IF total # 0 THEN <<ToString(RoundedPercent(completed, total)), "%">>
     ELSE <<"N/A">>

MetricCards(articles, latest_time) ==
  [success_rate |-> SuccessRate(articles),
   total_updates |-> <<ToString(Len(articles))>>,
   open_incidents |-> <<ToString(Len(ErrorArticles(articles)))>>,
   last_update |-> Or(latest_time, <<"-">>)]

ExperimentItems(item) ==
  << [title |-> <<"Experiment backlog">>, owner |-> item.agent],
     [title |-> <<"Automation improvements">>, owner |-> <<"engineering">>] >>

RepoServerRail(item, items) ==
  <<HomeEntry(FALSE)>> \o
  [k \in 1..Len(items) |->
     RailEntry(items[k].repo = item.repo, _repo_page_filename(items[k].repo),
               items[k].repo, badge_label(items[k].repo))]

\* the repository template with every placeholder replaced
RepoPage(item, items) ==
  LET articles == item.articles
      has_latest == articles # <<>>
      latest_status == IF has_latest THEN articles[1].status ELSE <<"unknown">>
      latest_summary == IF has_latest THEN articles[1].summary
                        ELSE <<"No updates yet">>
      latest_stage == IF has_latest THEN articles[1].stage ELSE <<"update">>
      latest_time == IF has_latest THEN articles[1].time_display ELSE <<"-">>
      incidents == ErrorArticles(articles)
      recent_outcome_title == IF incidents # <<>> THEN incidents[1].summary
                              ELSE <<"No incidents">>
      recent_outcome_note == IF incidents # <<>> /\ incidents[1].notes # <<>>
                             THEN incidents[1].notes
                             ELSE <<"Latest activity looks healthy.">>
  IN [SERVER_RAIL |-> RepoServerRail(item, items),
      REPO_NAME |-> item.repo,
      AGENT_NAME |-> item.agent,
      LATEST_STATUS_CLASS |-> latest_status,
      LATEST_STATUS_LABEL |-> capitalize(latest_status),
      LATEST_SUMMARY |-> Or(latest_summary, <<"Update">>),
      LATEST_STAGE |-> Or(latest_stage, <<"update">>),
      LATEST_TIME_DISPLAY |-> Or(latest_time, <<"-">>),
      RECENT_OUTCOME_TITLE |-> Or(recent_outcome_title, <<"No incidents">>),
      RECENT_OUTCOME_NOTE |-> recent_outcome_note,
      ACTIVITY_ITEMS |-> ActivityItems(articles),
      INCIDENT_ITEMS |-> IncidentItems(articles),
      METRIC_CARDS |-> MetricCards(articles, latest_time),
      EXPERIMENT_ITEMS |-> ExperimentItems(item),
      HISTORY_SECTION |-> _indent_block(item.section_html, 8)]

\* the dashboard template with its three placeholders replaced
DashboardPage(status_rows, blocks, rail) ==
  [STATUS_ROWS |-> status_rows, HISTORY_BLOCKS |-> blocks, SERVER_RAIL |-> rail]

OUTPUT_PATH == <<"dashboard.html">>
TEMPLATE_PATH == <<"dashboard.template.html">>
REPO_TEMPLATE_PATH == <<"repo.template.html">>

\* mutant: the file is opened for appending
write_text_append(fs, path, content) ==
  [p \in DOMAIN fs \cup {path} |->
     IF p # path THEN fs[p]
     ELSE IF p \in DOMAIN fs THEN fs[p] \o <<content>> ELSE <<content>>]

\* Path.write_text: the file holds exactly what was written last
write_text(fs, path, content) ==
  [p \in DOMAIN fs \cup {path} |-> IF p = path THEN <<content>> ELSE fs[p]]

(* ---------------------------- inputs ----------------------------------- *)
\* A file of UPDATES_DIR matching updates-*.html: its stem and its content.
UpdateFile(stem, html) == [stem |-> stem, html |-> html]
FileName(file) == file.stem \o <<".html">>

\* repository names, in the order sorted() gives their file names
Names == <<"alpha", "beta", "delta", "eps", "foo">>

TsZ == <<"2024-03-01T10:00:00", "Z">>
TsOffset == <<"2024-03-01T12:00:00", "+02:00">>
TsLateZ == <<"2024-03-02T09:00:00", "Z">>
TsNaive == <<"2024-03-01T10:00:00">>
TsLateNaive == <<"2024-03-02T09:00:00">>
TsMin == <<"0001-01-01T00:00:00">>
TsJunk == <<"yesterday">>
Timestamps == {TsZ, TsOffset, TsLateZ, TsNaive, TsLateNaive, TsMin, TsJunk}

StdArticle(status, time) ==
  ArticleElement(status, time, <<"Deploy">>, <<"build">>, <<"ok">>)

NamedFile(k, articles) ==
  UpdateFile(<<"updates-", Names[k]>>,
             Html(<<>>, TRUE, <<Names[k]>>, <<"bot">>, articles))

\* ordering family: up to MaxFiles fragments whose latest entries carry every
\* kind of timestamp (or no entry at all)
LatestChoices == {<<>>} \cup {<<StdArticle(<<"complete">>, t)>> : t \in Timestamps}

OrderingDirs ==
  UNION {{[k \in 1..n |-> NamedFile(k, pick[k])] : pick \in [1..n -> LatestChoices]}
         : n \in 0..MaxFiles}

\* entries family: one fragment with up to MaxArticles articles of every shape
ArticleKinds ==
  { StdArticle(<<"complete">>, TsLateNaive),
    ArticleElement(<<"error">>, TsNaive, <<"Build failed">>, <<"test">>, <<"timeout">>),
    ArticleElement(<<"error">>, TsNaive, <<>>, <<"test">>, <<"disk full">>),
    ArticleElement(<<"error">>, TsJunk, <<"Crash">>, <<>>, <<>>),
    ArticleElement(<<" ", "running">>, TsZ, <<"<b>", "R", "&amp;", "D", "</b>", " ">>,
                   <<" ", "deploy", " ", "<em>", "x", "</em>">>, <<" ">>),
    ArticleElement(<<>>, <<>>, <<"Draft">>, <<"build">>, <<>>),
    ArticleElement(<<" ">>, TsNaive, <<"Queued">>, <<"plan">>, <<>>) }

EntryDirs ==
  UNION {{<<NamedFile(1, articles)>> : articles \in [1..n -> ArticleKinds]}
         : n \in 0..MaxArticles}

\* success-rate family: c complete entries followed by e error entries
Repeat(a, n) == [k \in 1..n |-> a]

RateDirs ==
  {<<NamedFile(1, Repeat(StdArticle(<<"complete">>, TsLateNaive), c)
                  \o Repeat(StdArticle(<<"error">>, TsNaive), e))>>
   : c \in 0..MaxRate, e \in 0..MaxRate}

\* naming family: one or two fragments whose file names and section markers
\* take every shape; the stems are listed in sorted() order
Stems == << <<"updates-">>, <<"updates-", "foo">>, <<"updates-", "repo-", "foo">>,
            <<"updates-", "updates-">> >>

Fragments ==
  { Html(<<" ">>, FALSE, <<>>, <<>>, <<StdArticle(<<"complete">>, TsNaive)>>),
    Html(<<" ">>, TRUE, <<"foo">>, <<>>, <<StdArticle(<<"complete">>, TsNaive)>>),
    Html(<<" ">>, TRUE, <<"foo">>, <<"bot">>, <<StdArticle(<<"error">>, TsNaive)>>),
    Html(<<>>, TRUE, <<"repo-", "foo">>, <<"ci">>, <<>>) }

NamingDirs ==
  {<<UpdateFile(Stems[a], h)>> : a \in 1..Len(Stems), h \in Fragments}
  \cup {<<UpdateFile(Stems[a], g), UpdateFile(Stems[b], h)>> :
          <<a, b>> \in {q \in (1..Len(Stems)) \X (1..Len(Stems)) : q[1] < q[2]},
          <<g, h>> \in Fragments \X Fragments}

\* I/O family: some fragment or template cannot be read
SmallDirs ==
  {[k \in 1..n |-> NamedFile(k, <<StdArticle(<<"complete">>, TsNaive)>>)] : n \in 0..2}

InputNames(dir) ==
  {FileName(dir[k]) : k \in 1..Len(dir)} \cup {TEMPLATE_PATH, REPO_TEMPLATE_PATH}

Inputs ==
  {[files |-> d, unreadable |-> {}] :
     d \in OrderingDirs \cup EntryDirs \cup RateDirs \cup NamingDirs}
  \cup UNION {{[files |-> d, unreadable |-> u] : u \in SUBSET InputNames(d) \ {{}}}
              : d \in SmallDirs}

(* ---------------------------- state ------------------------------------ *)
VARIABLES
  files,           \* sorted(UPDATES_DIR.glob("updates-*.html")) and contents
  unreadable,      \* the input files whose read_text raises OSError
  out,             \* private/dev: output path -> what the file holds
  prev_out,        \* out as the previous run left it
  run,             \* number of the current run of the script
  pc,              \* position in build_dashboard
  error,           \* the exception that ended the run, "" if none
  updates, rows, history_blocks, server_rail,   \* locals of build_dashboard
  i,               \* index of the for loop over updates
  reads,           \* inputs read so far in this run
  writes           \* outputs written so far in this run

vars == <<files, unreadable, out, prev_out, run, pc, error, updates, rows,
          history_blocks, server_rail, i, reads, writes>>

input == <<files, unreadable>>
locals == <<updates, rows, history_blocks, server_rail, i>>

NoFiles == [p \in {} |-> <<>>]

Init ==
  /\ \E in \in Inputs : files = in.files /\ unreadable = in.unreadable
  /\ out = NoFiles /\ prev_out = NoFiles
  /\ run = 1 /\ pc = "start" /\ error = ""
  /\ updates = <<>> /\ rows = <<>> /\ history_blocks = <<>> /\ server_rail = <<>>
  /\ i = 1 /\ reads = {} /\ writes = {}

Raise(exception) == pc' = "failed" /\ error' = exception

\* lines 125-126: read and parse every fragment, in file-name order
ReadUpdates ==
  /\ pc = "start"
  /\ LET bad == {k \in 1..Len(files) : FileName(files[k]) \in unreadable}
     IN IF bad # {}
        THEN LET first == CHOOSE k \in bad : \A j \in bad : k <= j
             IN /\ Raise("OSError")
                /\ reads' = {FileName(files[k]) : k \in 1..(first - 1)}
                /\ UNCHANGED updates
        ELSE /\ updates' = [k \in 1..Len(files) |-> _parse_update_file(files[k])]
             /\ reads' = {FileName(files[k]) : k \in 1..Len(files)}
             /\ pc' = "sort" /\ UNCHANGED error
  /\ UNCHANGED <<input, out, prev_out, run, rows, history_blocks, server_rail, i, writes>>

\* lines 127-133: sort by the latest entry's time and start the three lists
SortUpdates ==
  /\ pc = "sort"
  /\ IF SortRaises(updates)
     THEN Raise("TypeError") /\ UNCHANGED <<updates, rows, history_blocks, server_rail>>
     ELSE /\ updates' = SortDescending(updates)
          /\ rows' = <<>> /\ history_blocks' = <<>>
          /\ server_rail' = <<HomeEntry(TRUE)>>
          /\ pc' = "read_repo_template" /\ UNCHANGED error
  /\ UNCHANGED <<input, out, prev_out, run, i, reads, writes>>

\* line 135
ReadRepoTemplate ==
  /\ pc = "read_repo_template"
  /\ IF REPO_TEMPLATE_PATH \in unreadable
     THEN Raise("OSError") /\ UNCHANGED reads
     ELSE /\ reads' = reads \cup {REPO_TEMPLATE_PATH}
          /\ pc' = IF updates = <<>> THEN "no_updates" ELSE "loop"
          /\ UNCHANGED error
  /\ UNCHANGED <<input, out, prev_out, run, locals, writes>>

\* lines 137-146: no fragment at all
NoUpdates ==
  /\ pc = "no_updates"
  /\ rows' = Append(rows, MissingRow)
  /\ pc' = "read_template"
  /\ UNCHANGED <<input, out, prev_out, run, error, updates, history_blocks,
                 server_rail, i, reads, writes>>

\* lines 158-323: one iteration of the loop over updates
RenderRepo ==
  /\ pc = "loop"
  /\ LET item == updates[i]
         repo_output == _repo_page_filename(item.repo)
     IN /\ server_rail' = Append(server_rail,
                                 RailEntry(FALSE, repo_output, item.repo,
                                           badge_label(item.repo)))
        /\ rows' = Append(rows, StatusRow(item))
        /\ history_blocks' = Append(history_blocks, HistoryBlock(item))
        /\ out' = write_text(out, repo_output, RepoPage(item, updates))
        /\ writes' = writes \cup {repo_output}
  /\ i' = i + 1
  /\ pc' = IF i = Len(updates) THEN "read_template" ELSE "loop"
  /\ UNCHANGED <<input, prev_out, run, error, updates, reads>>

\* line 325
ReadTemplate ==
  /\ pc = "read_template"
  /\ IF TEMPLATE_PATH \in unreadable
     THEN Raise("OSError") /\ UNCHANGED reads
     ELSE reads' = reads \cup {TEMPLATE_PATH} /\ pc' = "write" /\ UNCHANGED error
  /\ UNCHANGED <<input, out, prev_out, run, locals, writes>>

\* lines 326-329
WriteDashboard ==
  /\ pc = "write"
  /\ out' = write_text(out, OUTPUT_PATH,
                       DashboardPage(rows, history_blocks, server_rail))
  /\ writes' = writes \cup {OUTPUT_PATH}
  /\ pc' = "done"
  /\ UNCHANGED <<input, prev_out, run, error, locals, reads>>

\* lines 332-333: the script is run again on the same input
Rerun ==
  /\ pc \in {"done", "failed"}
  /\ run < MaxRuns
  /\ run' = run + 1
  /\ prev_out' = out
  /\ pc' = "start" /\ error' = ""
  /\ updates' = <<>> /\ rows' = <<>> /\ history_blocks' = <<>> /\ server_rail' = <<>>
  /\ i' = 1 /\ reads' = {} /\ writes' = {}
  /\ UNCHANGED <<input, out>>

Next ==
  \/ ReadUpdates
  \/ SortUpdates
  \/ ReadRepoTemplate
  \/ NoUpdates
  \/ RenderRepo
  \/ ReadTemplate
  \/ WriteDashboard
  \/ Rerun

Spec == Init /\ [][Next]_vars

(* ======================= properties ==================================== *)
\* positions of build_dashboard after the sort has returned
AfterSort == pc \in {"read_repo_template", "no_updates", "loop", "read_template",
                     "write", "done"}

\* the records in input (sorted file name) order
Parsed == [k \in 1..Len(files) |-> _parse_update_file(files[k])]

\* the parsed timestamp of a record's first entry: <<d>>, or <<>> if the
\* record has no entry or the entry's timestamp does not parse
LatestParsed(u) ==
  LET found == SelectSeq(u.section_html.articles, ArticleMatches)
  IN IF found = <<>> THEN <<>> ELSE _parse_iso(found[1].time)

LatestKey(u) == IF LatestParsed(u) = <<>> THEN datetime_min ELSE LatestParsed(u)[1]

Perms(n) == {f \in [1..n -> 1..n] : \A a, b \in 1..n : a # b => f[a] # f[b]}

\* listed is original reordered by descending key, equal keys in input order
StableDescending(listed, original) ==
  \E f \in Perms(Len(original)) :
    /\ listed = [k \in 1..Len(original) |-> original[f[k]]]
    /\ \A a, b \in 1..Len(original) :
         a < b => \/ DtLess(LatestKey(listed[b]), LatestKey(listed[a]))
                  \/ /\ Instant(LatestKey(listed[a])) = Instant(LatestKey(listed[b]))
                     /\ f[a] < f[b]

\* the status table of the dashboard lists the records in the order of updates
TableFollowsUpdates ==
  pc = "done" /\ updates # <<>> =>
    LET table == out[OUTPUT_PATH][1].STATUS_ROWS
    IN /\ Len(table) = Len(updates)
       /\ \A k \in 1..Len(updates) : table[k].repo = updates[k].repo

\* C1 (as amended): once the sort has returned, the repositories are listed
\* in descending order of the parsed timestamp of their first entry (a later
\* timestamp strictly first), records with equal keys keep their input
\* order, and a record with no parsable latest timestamp comes after every
\* record whose parsed timestamp is later than datetime.min, with which it
\* ties.
C1_SortedByLatest ==
  AfterSort =>
    /\ StableDescending(updates, Parsed)
    /\ \A a, b \in 1..Len(updates) :
         a < b /\ LatestParsed(updates[a]) = <<>> /\ LatestParsed(updates[b]) # <<>>
           => LatestParsed(updates[b])[1] = datetime_min
    /\ TableFollowsUpdates

\* C1 witness: three repositories were reordered, among them one without a
\* parsable timestamp and two with equal keys
C1_Witness ==
  /\ pc = "done" /\ Len(updates) = 3 /\ updates # Parsed
  /\ LatestParsed(updates[3]) = <<>>
  /\ LatestParsed(updates[1]) # <<>> /\ LatestParsed(updates[2]) # <<>>
  /\ Instant(LatestKey(updates[1])) = Instant(LatestKey(updates[2]))

\* C1 (as stated): ... and every repository with no parsable latest
\* timestamp appears after all repositories with a parsable one
C1_UnparsableAlwaysLast ==
  AfterSort =>
    /\ StableDescending(updates, Parsed)
    /\ \A a, b \in 1..Len(updates) :
         a < b => ~(LatestParsed(updates[a]) = <<>> /\ LatestParsed(updates[b]) # <<>>)

\* C2: with every fragment and template readable, no run aborts, whatever
\* mix of offset-carrying, offset-less and unparsable timestamps it reads
C2_NeverAborts == unreadable = {} => pc # "failed"

\* the repository pages that were written from a record of updates
PagesOf(u) ==
  {out[p][1] : p \in {q \in DOMAIN out \ {OUTPUT_PATH} :
                        /\ out[q][1].REPO_NAME = u.repo
                        /\ out[q][1].HISTORY_SECTION.block = u.section_html}}

CountStatus(entries, word) ==
  Cardinality({k \in 1..Len(entries) : entries[k].status = <<word>>})

\* the integer nearest to 100 * c / t, a half going to the even neighbour
NearestPercent(c, t) ==
  CHOOSE r \in 0..100 :
    LET d == IF 100 * c >= r * t THEN 100 * c - r * t ELSE r * t - 100 * c
    IN 2 * d < t \/ (2 * d = t /\ r % 2 = 0)

\* C3: the success rate on a repository page is round(100 * c / (c + e))
\* followed by "%", or "N/A" when c + e = 0, c and e counting the entries
\* whose status is exactly "complete" and exactly "error"
C3_SuccessRateExact ==
  \A k \in 1..Len(updates) : \A page \in PagesOf(updates[k]) :
    LET c == CountStatus(updates[k].articles, "complete")
        e == CountStatus(updates[k].articles, "error")
    IN page.METRIC_CARDS.success_rate =
         IF c + e = 0 THEN <<"N/A">>
         ELSE <<ToString(NearestPercent(c, c + e)), "%">>

\* an article element with both attributes, a heading and a Stage value
WellFormed(el) ==
  /\ el.status # <<>> /\ el.time # <<>>
  /\ \E k \in 1..Len(el.h4) : el.h4[k] \notin Tags \cup {Blank}
  /\ LStrip(el.stage) # <<>> /\ Head(LStrip(el.stage)) \notin Tags

AllWellFormed(u) ==
  \A k \in 1..Len(u.section_html.articles) : WellFormed(u.section_html.articles[k])

\* C4: a fragment of N well-formed articles gives exactly N entries in
\* document order, and the latest status, summary, stage and display time on
\* the repository's page are those of the first entry
C4_EntriesInDocumentOrder ==
  \A k \in 1..Len(updates) :
    LET u == updates[k]
        els == u.section_html.articles
    IN AllWellFormed(u) =>
         /\ Len(u.articles) = Len(els)
         /\ \A j \in 1..Len(els) :
              /\ u.articles[j].time_raw = Strip(els[j].time)
              /\ u.articles[j].status = Or(Strip(els[j].status), <<"unknown">>)
         /\ \A page \in PagesOf(u) :
              els # <<>> =>
                /\ page.LATEST_STATUS_CLASS = u.articles[1].status
                /\ page.LATEST_SUMMARY = u.articles[1].summary
                /\ page.LATEST_STAGE = u.articles[1].stage
                /\ page.LATEST_TIME_DISPLAY = u.articles[1].time_display

\* C4 witness: the page of a fragment with three well-formed articles, the
\* first unlike the last, has been written
C4_Witness ==
  /\ pc = "done" /\ Len(updates) = 1 /\ AllWellFormed(updates[1])
  /\ Len(updates[1].articles) = 3
  /\ updates[1].articles[1].status # updates[1].articles[3].status
  /\ PagesOf(updates[1]) # {}

\* C5: with no fragment the run does not abort (unless a template cannot be
\* read) and writes only a dashboard with the single Missing row, the home
\* entry alone in the rail and an empty history
C5_EmptyDirectory ==
  files = <<>> =>
    /\ pc = "failed" => unreadable # {}
    /\ DOMAIN out \subseteq {OUTPUT_PATH}
    /\ pc = "done" =>
         /\ DOMAIN out = {OUTPUT_PATH}
         /\ Len(out[OUTPUT_PATH][1].STATUS_ROWS) = 1
         /\ out[OUTPUT_PATH][1].STATUS_ROWS[1].repo = <<"-">>
         /\ out[OUTPUT_PATH][1].STATUS_ROWS[1].status_label = <<"Missing">>
         /\ out[OUTPUT_PATH][1].STATUS_ROWS[1].summary = <<"No updates found">>
         /\ out[OUTPUT_PATH][1].SERVER_RAIL = <<HomeEntry(TRUE)>>
         /\ out[OUTPUT_PATH][1].HISTORY_BLOCKS = <<>>

\* C5 witness: a run over an empty directory has finished
C5_Witness == files = <<>> /\ pc = "done" /\ OUTPUT_PATH \in DOMAIN out

\* C6: every parsed record has a non-empty repo and a non-empty agent
C6_IdentifiersNonEmpty ==
  \A k \in 1..Len(updates) : updates[k].repo # <<>> /\ updates[k].agent # <<>>

\* C7: after a run, every repository still has its own page: no page was
\* overwritten by the page of a repository with another identifier
C7_NoPageOverwritten ==
  pc = "done" =>
    \A k \in 1..Len(updates) :
      \E p \in DOMAIN out \ {OUTPUT_PATH} : out[p][1].REPO_NAME = updates[k].repo

\* C8: nothing is written before every fragment and both templates have been
\* read, so a run that fails on a read has written nothing
C8_ReadsBeforeWrites ==
  /\ writes # {} => InputNames(files) \subseteq reads
  /\ pc = "failed" /\ error = "OSError" => writes = {}

\* C9: the incident feed has one item per error entry, in document order,
\* and the placeholder exactly when there is none; the most recent incident
\* shown is the first error entry, and "No incidents" is shown only when no
\* entry has status error
C9_IncidentFeed ==
  \A k \in 1..Len(updates) : \A page \in PagesOf(updates[k]) :
    LET errs == SelectSeq(updates[k].articles, LAMBDA a : a.status = <<"error">>)
        feed == page.INCIDENT_ITEMS
    IN /\ errs = <<>> <=> feed = <<NoIncidentsItem>>
       /\ errs # <<>> =>
            /\ Len(feed) = Len(errs)
            /\ \A j \in 1..Len(errs) : feed[j].time = errs[j].time_display
            /\ page.RECENT_OUTCOME_TITLE = errs[1].summary
            /\ page.RECENT_OUTCOME_NOTE = errs[1].notes
       /\ page.RECENT_OUTCOME_TITLE = <<"No incidents">> => errs = <<>>

\* C10: a second run on the same input leaves every output file as the
\* first run left it and creates no further file
C10_Idempotent == run > 1 /\ pc \in {"done", "failed"} => out = prev_out

\* C10 witness: a second run that rewrote a dashboard and two pages is over
C10_Witness ==
  /\ run = 2 /\ pc = "done" /\ Cardinality(DOMAIN out) >= 3
  /\ Cardinality(writes) >= 3

====
